---- MODULE Spec2Model ----
(***************************************************************************)
(* The identifier-indexed D-ary min-heap of gen_id_priority_queue          *)
(* (src/src/untyped.rs) behind its typed facade (src/src/lib.rs).          *)
(*                                                                         *)
(* An identifier is modelled by its dense index (UntypedId's index); an    *)
(* Option<T> is the empty sequence (None) or a one-element sequence        *)
(* (Some(x)); an UntypedComponent<T> is the sequence of its slots, the     *)
(* slot of identifier i being element i + 1; a heap position p of          *)
(* inverse_map is element p + 1.                                           *)
(***************************************************************************)
EXTENDS Integers, Sequences, FiniteSets, TLC

VARIABLES
    values,        \* UntypedComponent<Option<T>>: the priority of each identifier
    position_map,  \* UntypedComponent<Option<u32>>: identifier -> heap position
    inverse_map,   \* Vec<UntypedId>: heap position -> identifier
    op,            \* the public call made last, with its arguments
    ret,           \* what that call returned (None for a call returning ())
    fault,         \* whether that call panicked
    prev,          \* the queue as it was when that call was made
    scenario       \* "walk": calls from the empty queue; "deep": one call on a
                   \* two-level heap built by in-order inserts; "max_walk" and
                   \* "max_deep": the same for the max-queue

vars == <<values, position_map, inverse_map, op, ret, fault, prev, scenario>>

(* ------------------------------ bounds --------------------------------- *)

\* identifiers 0 .. NumIds - 1 are used by the random walk from the empty queue
NumIds == 3

\* priorities are 0 .. MaxValue
MaxValue == 1

(* ------------------------- program constants --------------------------- *)

ARITY == 8

\* usize::MAX; TLC's integers are 32 bits wide, so the model's usize is the
\* largest integer TLC has
USIZE_MAX == 2147483647

(* ------------------------------ Option --------------------------------- *)

None == << >>

Some(x) == << x >>

unwrap(o) == o[1]

\* T: Ord on the priorities
lt(a, b) == a < b

\* Option<T>: Ord, None before every Some
option_lt(a, b) ==
    IF a = None THEN b # None
    ELSE b # None /\ lt(unwrap(a), unwrap(b))

(* ----------------- UntypedComponent (dense storage) -------------------- *)

\* get(id) -> Option<&T>
component_get(c, id) == IF id < Len(c) THEN Some(c[id + 1]) ELSE None

\* whether the slot of id exists
component_in_bounds(c, id) == id < Len(c)

\* Index / IndexMut when it does not panic: the payload of id, the empty
\* payload for an identifier without a slot
component_index(c, id) == IF id < Len(c) THEN c[id + 1] ELSE None

\* insert(id, value): overwrite the slot, or grow with default slots up to it
component_insert(c, id, x) ==
    IF id < Len(c)
    THEN [c EXCEPT ![id + 1] = x]
    ELSE [i \in 1..(id + 1) |->
            IF i <= Len(c) THEN c[i] ELSE IF i = id + 1 THEN x ELSE None]

\* swap(a, b): exchange the two slots
component_swap(c, a, b) == [c EXCEPT ![a + 1] = c[b + 1], ![b + 1] = c[a + 1]]

\* fill_with(|| None): every slot reset, the length kept
component_fill_none(c) == [i \in 1..Len(c) |-> None]

(* ----------------------- UntypedIndexedMinQueue ------------------------ *)

\* the queue as one value
Self == [values |-> values, position_map |-> position_map,
         inverse_map |-> inverse_map]

\* Default::default()
default == [values |-> << >>, position_map |-> << >>, inverse_map |-> << >>]

len(q) == Len(q.inverse_map)

is_empty(q) == len(q) = 0

\* get_parent that takes the position before index for its parent
get_parent_previous(index, arity) ==
    IF index = 0 THEN None ELSE Some(index - 1)

get_parent(index, arity) ==
    IF index = 0 THEN None ELSE Some((index - 1) \div arity)

\* the half-open range min .. max of child positions
get_children(index, n, arity) ==
    LET i == index * arity
        hi == i + arity + 1
    IN [min |-> i + 1, max |-> IF hi < n THEN hi ELSE n]

get_position(q, position) ==
    IF position < Len(q.inverse_map)
    THEN component_index(q.values, q.inverse_map[position + 1])
    ELSE None

get_position_with_id(q, position) ==
    IF position < Len(q.inverse_map)
    THEN LET id == q.inverse_map[position + 1]
             value == component_index(q.values, id)
         IN IF value = None THEN None ELSE Some(<<id, unwrap(value)>>)
    ELSE None

\* swap that forgets the position map
swap_inverse_only(q, a, b) ==
    IF a < Len(q.inverse_map) /\ b < Len(q.inverse_map)
    THEN LET id_a == q.inverse_map[a + 1]
             id_b == q.inverse_map[b + 1]
         IN [q EXCEPT !.inverse_map = [@ EXCEPT ![a + 1] = id_b, ![b + 1] = id_a]]
    ELSE q

\* swap that exchanges the two stored values as well
swap_with_values(q, a, b) ==
    IF a < Len(q.inverse_map) /\ b < Len(q.inverse_map)
    THEN LET id_a == q.inverse_map[a + 1]
             id_b == q.inverse_map[b + 1]
         IN [q EXCEPT !.values = component_swap(@, id_a, id_b),
                      !.position_map = component_swap(@, id_a, id_b),
                      !.inverse_map = [@ EXCEPT ![a + 1] = id_b, ![b + 1] = id_a]]
    ELSE q

swap(q, a, b) ==
    IF a < Len(q.inverse_map) /\ b < Len(q.inverse_map)
    THEN LET id_a == q.inverse_map[a + 1]
             id_b == q.inverse_map[b + 1]
         IN [q EXCEPT !.position_map = component_swap(@, id_a, id_b),
                      !.inverse_map = [@ EXCEPT ![a + 1] = id_b, ![b + 1] = id_a]]
    ELSE q

\* the (child, value) pairs min_child's filter_map lets through, in range order
min_child_candidates(q, parent) ==
    LET r == get_children(parent, Len(q.inverse_map), ARITY)
        n == IF r.max > r.min THEN r.max - r.min ELSE 0
        range == [i \in 1..n |-> r.min + i - 1]
    IN SelectSeq(range,
                 LAMBDA child : /\ child < Len(q.inverse_map)
                                /\ component_get(q.values, q.inverse_map[child + 1]) # None)

\* reduce: the running minimum is replaced only by a strictly smaller value
RECURSIVE min_child_reduce(_, _, _, _)
min_child_reduce(q, cand, k, min) ==
    IF k > Len(cand) THEN min
    ELSE LET next == cand[k]
             next_value == component_index(q.values, q.inverse_map[next + 1])
             min_value == component_index(q.values, q.inverse_map[min + 1])
         IN min_child_reduce(q, cand, k + 1,
                             IF option_lt(next_value, min_value) THEN next ELSE min)

\* reduce whose running minimum is also replaced by an equal value
RECURSIVE min_child_reduce_last(_, _, _, _)
min_child_reduce_last(q, cand, k, min) ==
    IF k > Len(cand) THEN min
    ELSE LET next == cand[k]
             next_value == component_index(q.values, q.inverse_map[next + 1])
             min_value == component_index(q.values, q.inverse_map[min + 1])
         IN min_child_reduce_last(q, cand, k + 1,
                                  IF option_lt(min_value, next_value) THEN min ELSE next)

\* min_child that takes the last of the children sharing the minimum
min_child_last(q, parent) ==
    LET cand == min_child_candidates(q, parent)
    IN IF cand = << >> THEN None ELSE Some(min_child_reduce_last(q, cand, 2, cand[1]))

\* min_child that takes the first child for the smallest
min_child_first(q, parent) ==
    LET cand == min_child_candidates(q, parent)
    IN IF cand = << >> THEN None ELSE Some(cand[1])

min_child(q, parent) ==
    LET cand == min_child_candidates(q, parent)
    IN IF cand = << >> THEN None ELSE Some(min_child_reduce(q, cand, 2, cand[1]))

\* sink that stops after its first swap
sink_once(q, index) ==
    LET child == min_child(q, index)
    IN IF child = None THEN q
       ELSE LET child_value == get_position(q, unwrap(child))
                parent_value == get_position(q, index)
            IN IF child_value = None \/ parent_value = None THEN q
               ELSE IF lt(unwrap(child_value), unwrap(parent_value))
                    THEN swap(q, index, unwrap(child))
                    ELSE q

RECURSIVE sink(_, _)
sink(q, index) ==
    LET child == min_child(q, index)
    IN IF child = None THEN q
       ELSE LET child_value == get_position(q, unwrap(child))
                parent_value == get_position(q, index)
            IN IF child_value = None \/ parent_value = None THEN q
               ELSE IF lt(unwrap(child_value), unwrap(parent_value))
                    THEN sink(swap(q, index, unwrap(child)), unwrap(child))
                    ELSE q

\* swim whose comparison is the wrong way round
RECURSIVE swim_inverted(_, _)
swim_inverted(q, index) ==
    LET parent == get_parent(index, ARITY)
    IN IF parent = None THEN q
       ELSE LET parent_value == get_position(q, unwrap(parent))
                child_value == get_position(q, index)
            IN IF parent_value = None \/ child_value = None THEN q
               ELSE IF lt(unwrap(parent_value), unwrap(child_value))
                    THEN swim_inverted(swap(q, index, unwrap(parent)), unwrap(parent))
                    ELSE q

\* swim that also moves a node equal to its parent
RECURSIVE swim_non_strict(_, _)
swim_non_strict(q, index) ==
    LET parent == get_parent(index, ARITY)
    IN IF parent = None THEN q
       ELSE LET parent_value == get_position(q, unwrap(parent))
                child_value == get_position(q, index)
            IN IF parent_value = None \/ child_value = None THEN q
               ELSE IF ~lt(unwrap(parent_value), unwrap(child_value))
                    THEN swim_non_strict(swap(q, index, unwrap(parent)), unwrap(parent))
                    ELSE q

RECURSIVE swim(_, _)
swim(q, index) ==
    LET parent == get_parent(index, ARITY)
    IN IF parent = None THEN q
       ELSE LET parent_value == get_position(q, unwrap(parent))
                child_value == get_position(q, index)
            IN IF parent_value = None \/ child_value = None THEN q
               ELSE IF lt(unwrap(child_value), unwrap(parent_value))
                    THEN swim(swap(q, index, unwrap(parent)), unwrap(parent))
                    ELSE q

\* clone_from(rhs): each of the three fields becomes a copy of that of rhs
clone_from(q, rhs) ==
    [values |-> rhs.values,
     position_map |-> rhs.position_map,
     inverse_map |-> rhs.inverse_map]

\* clear that forgets the position map
clear_keep_positions(q) ==
    [values |-> component_fill_none(q.values),
     position_map |-> q.position_map,
     inverse_map |-> << >>]

\* clear that forgets the values
clear_keep_values(q) ==
    [values |-> q.values,
     position_map |-> component_fill_none(q.position_map),
     inverse_map |-> << >>]

clear(q) ==
    [values |-> component_fill_none(q.values),
     position_map |-> component_fill_none(q.position_map),
     inverse_map |-> << >>]

\* insert that never looks for the identifier's position
insert_always_push(q, id, value) ==
    LET q1 == [q EXCEPT !.values = component_insert(@, id, Some(value))]
        index == Len(q1.inverse_map)
        q2 == [q1 EXCEPT
                 !.position_map = component_insert(@, id, Some(index)),
                 !.inverse_map = Append(@, id)]
    IN swim(q2, index)

insert(q, id, value) ==
    LET q1 == [q EXCEPT !.values = component_insert(@, id, Some(value))]
        slot == component_get(q1.position_map, id)
    IN IF slot # None /\ unwrap(slot) # None
       THEN LET index == unwrap(unwrap(slot))
            IN swim(sink(q1, index), index)
       ELSE LET index == Len(q1.inverse_map)
                q2 == [q1 EXCEPT
                         !.position_map = component_insert(@, id, Some(index)),
                         !.inverse_map = Append(@, id)]
            IN swim(q2, index)

\* remove that takes an empty position slot for position 0
remove_unwrap_or_default(q, id) ==
    LET slot == component_get(q.position_map, id)
    IN IF slot = None
       THEN [q |-> q, ret |-> None]
       ELSE LET position == IF unwrap(slot) = None THEN 0 ELSE unwrap(unwrap(slot))
                last == Len(q.inverse_map) - 1
                q1 == swap(q, position, last)
                value == component_index(q1.values, id)
                popped == IF q1.inverse_map = << >> THEN None
                          ELSE Some(q1.inverse_map[Len(q1.inverse_map)])
                q2 == [q1 EXCEPT
                         !.values = [@ EXCEPT ![id + 1] = None],
                         !.position_map = [@ EXCEPT ![id + 1] = None],
                         !.inverse_map = SubSeq(@, 1, Len(@) - 1)]
                q3 == swim(sink(q2, position), position)
            IN [q |-> q3,
                ret |-> IF popped = None \/ value = None THEN None
                        ELSE Some(<<unwrap(popped), unwrap(value)>>)]

\* remove that leaves the position of id in position_map
remove_keep_position(q, id) ==
    LET slot == component_get(q.position_map, id)
    IN IF slot = None \/ unwrap(slot) = None
       THEN [q |-> q, ret |-> None]
       ELSE LET position == unwrap(unwrap(slot))
                last == Len(q.inverse_map) - 1
                q1 == swap(q, position, last)
                value == component_index(q1.values, id)
                q2 == [q1 EXCEPT
                         !.values = [@ EXCEPT ![id + 1] = None],
                         !.inverse_map = SubSeq(@, 1, Len(@) - 1)]
                q3 == swim(sink(q2, position), position)
            IN [q |-> q3,
                ret |-> IF value = None THEN None
                        ELSE Some(<<id, unwrap(value)>>)]

\* remove that pops the last identifier without swapping the removed one there
remove_no_swap(q, id) ==
    LET slot == component_get(q.position_map, id)
    IN IF slot = None \/ unwrap(slot) = None
       THEN [q |-> q, ret |-> None]
       ELSE LET position == unwrap(unwrap(slot))
                value == component_index(q.values, id)
                popped == IF q.inverse_map = << >> THEN None
                          ELSE Some(q.inverse_map[Len(q.inverse_map)])
                q2 == [q EXCEPT
                         !.values = [@ EXCEPT ![id + 1] = None],
                         !.position_map = [@ EXCEPT ![id + 1] = None],
                         !.inverse_map = SubSeq(@, 1, Len(@) - 1)]
                q3 == swim(sink(q2, position), position)
            IN [q |-> q3,
                ret |-> IF popped = None \/ value = None THEN None
                        ELSE Some(<<unwrap(popped), unwrap(value)>>)]

\* the queue after the call and the value returned
remove(q, id) ==
    LET slot == component_get(q.position_map, id)
    IN IF slot = None \/ unwrap(slot) = None
       THEN [q |-> q, ret |-> None]
       ELSE LET position == unwrap(unwrap(slot))
                last == Len(q.inverse_map) - 1
                q1 == swap(q, position, last)
                value == component_index(q1.values, id)
                popped == IF q1.inverse_map = << >> THEN None
                          ELSE Some(q1.inverse_map[Len(q1.inverse_map)])
                q2 == [q1 EXCEPT
                         !.values = [@ EXCEPT ![id + 1] = None],
                         !.position_map = [@ EXCEPT ![id + 1] = None],
                         !.inverse_map = SubSeq(@, 1, Len(@) - 1)]
                q3 == swim(sink(q2, position), position)
            IN [q |-> q3,
                ret |-> IF popped = None \/ value = None THEN None
                        ELSE Some(<<unwrap(popped), unwrap(value)>>)]

\* remove_position that takes len() for the last position
remove_position_off_by_one(q, position, overflow_checks) ==
    LET last == Len(q.inverse_map)
    IN IF position <= last
       THEN LET q1 == swap(q, position, last)
            IN IF q1.inverse_map = << >>
               THEN [q |-> q1, ret |-> None, fault |-> FALSE]
               ELSE LET id == q1.inverse_map[Len(q1.inverse_map)]
                        value == component_index(q1.values, id)
                        q2 == [q1 EXCEPT
                                 !.values = [@ EXCEPT ![id + 1] = None],
                                 !.position_map = [@ EXCEPT ![id + 1] = None],
                                 !.inverse_map = SubSeq(@, 1, Len(@) - 1)]
                        q3 == swim(sink(q2, position), position)
                    IN [q |-> q3,
                        ret |-> IF value = None THEN None
                                ELSE Some(<<id, unwrap(value)>>),
                        fault |-> FALSE]
       ELSE [q |-> q, ret |-> None, fault |-> FALSE]

\* the queue after the call, the value returned and whether the call panicked;
\* len() - 1 on an empty queue panics when the build checks overflow and wraps
\* to usize::MAX when it does not
remove_position(q, position, overflow_checks) ==
    IF Len(q.inverse_map) = 0 /\ overflow_checks
    THEN [q |-> q, ret |-> None, fault |-> TRUE]
    ELSE LET last == IF Len(q.inverse_map) = 0 THEN USIZE_MAX
                     ELSE Len(q.inverse_map) - 1
         IN IF position <= last
            THEN LET q1 == swap(q, position, last)
                 IN IF q1.inverse_map = << >>
                    THEN [q |-> q1, ret |-> None, fault |-> FALSE]
                    ELSE LET id == q1.inverse_map[Len(q1.inverse_map)]
                             value == component_index(q1.values, id)
                             q2 == [q1 EXCEPT
                                      !.values = [@ EXCEPT ![id + 1] = None],
                                      !.position_map = [@ EXCEPT ![id + 1] = None],
                                      !.inverse_map = SubSeq(@, 1, Len(@) - 1)]
                             q3 == swim(sink(q2, position), position)
                         IN [q |-> q3,
                             ret |-> IF value = None THEN None
                                     ELSE Some(<<id, unwrap(value)>>),
                             fault |-> FALSE]
            ELSE [q |-> q, ret |-> None, fault |-> FALSE]

\* the queue after the call and whether the call panicked. Both lookups are
\* made before the match; for an identifier without a slot, Index / IndexMut
\* of the storage either panics (index_panics) or gives the empty payload
decrease(q, id, value, index_panics) ==
    IF /\ index_panics
       /\ ~component_in_bounds(q.values, id) \/ ~component_in_bounds(q.position_map, id)
    THEN [q |-> q, fault |-> TRUE]
    ELSE LET current_value == component_index(q.values, id)
             index == component_index(q.position_map, id)
         IN IF current_value # None /\ index # None
            THEN IF lt(value, unwrap(current_value))
                 THEN [q |-> swim([q EXCEPT !.values = [@ EXCEPT ![id + 1] = Some(value)]],
                                  unwrap(index)),
                       fault |-> FALSE]
                 ELSE [q |-> q, fault |-> FALSE]
            ELSE [q |-> q, fault |-> FALSE]

increase(q, id, value, index_panics) ==
    IF /\ index_panics
       /\ ~component_in_bounds(q.values, id) \/ ~component_in_bounds(q.position_map, id)
    THEN [q |-> q, fault |-> TRUE]
    ELSE LET current_value == component_index(q.values, id)
             index == component_index(q.position_map, id)
         IN IF current_value # None /\ index # None
            THEN IF lt(unwrap(current_value), value)
                 THEN [q |-> sink([q EXCEPT !.values = [@ EXCEPT ![id + 1] = Some(value)]],
                                  unwrap(index)),
                       fault |-> FALSE]
                 ELSE [q |-> q, fault |-> FALSE]
            ELSE [q |-> q, fault |-> FALSE]

(* --------------------------- IndexedMinQueue --------------------------- *)

peek(q) == get_position(q, 0)

peek_id(q) == get_position_with_id(q, 0)

pop(q, overflow_checks) == remove_position(q, 0, overflow_checks)

(* --------------------------- IndexedMaxQueue --------------------------- *)

\* std::cmp::Reverse(x): the wrapper whose order is the reverse of x's. It is
\* modelled by the order-reversing embedding of the priorities into the
\* integers, so that lt on two wrapped values is lt on the values swapped.
Reverse(x) == 0 - x

\* the field .0 of a Reverse
reverse_0(rev) == 0 - rev

\* Option::map(|rev| rev.0)
map_reverse_0(o) == IF o = None THEN None ELSE Some(reverse_0(unwrap(o)))

\* Option::map(|(id, rev)| (id, rev.0))
map_id_reverse_0(o) ==
    IF o = None THEN None ELSE Some(<<unwrap(o)[1], reverse_0(unwrap(o)[2])>>)

max_clone_from(q, rhs) == clone_from(q, rhs)

max_clear(q) == clear(q)

max_insert(q, id, value) == insert(q, id, Reverse(value))

max_remove(q, id) ==
    LET r == remove(q, id)
    IN [q |-> r.q, ret |-> map_id_reverse_0(r.ret)]

max_peek(q) == map_reverse_0(peek(q))

max_peek_id(q) == map_id_reverse_0(peek_id(q))

max_get_position(q, position) == map_reverse_0(get_position(q, position))

max_get_position_with_id(q, position) ==
    map_id_reverse_0(get_position_with_id(q, position))

max_pop(q, overflow_checks) ==
    LET r == pop(q, overflow_checks)
    IN [q |-> r.q, ret |-> map_id_reverse_0(r.ret), fault |-> r.fault]

\* increase that forgets that the wrapped queue is ordered the other way
max_increase_not_swapped(q, id, value, index_panics) ==
    increase(q, id, Reverse(value), index_panics)

max_increase(q, id, value, index_panics) == decrease(q, id, Reverse(value), index_panics)

max_decrease(q, id, value, index_panics) == increase(q, id, Reverse(value), index_panics)

(* ------------------------------ the driver ----------------------------- *)

\* number of identifiers in the deep heap: the root, its ARITY children, the
\* ARITY children of position 1 and one child of position 2
DeepLen == 2 * ARITY + 2

\* the identifiers the caller holds: in the deep scenario one more than the
\* heap has seen
Ids == IF scenario \in {"walk", "max_walk"} THEN 0..(NumIds - 1) ELSE 0..DeepLen

Values == 0..MaxValue

Positions == 0..(Len(inverse_map) + 1)

\* the identifiers of the other queue the caller holds
RhsIds == 0..(NumIds - 1)

\* the states of that other queue: new, after one insert call, or after the
\* insert calls of the last two identifiers
OtherQueues ==
    {default}
    \cup {insert(default, i, v) : i \in RhsIds, v \in Values}
    \cup {insert(insert(default, NumIds - 2, v), NumIds - 1, w) :
              v \in Values, w \in Values}

\* the deep heap: identifiers 0 .. DeepLen - 1 inserted in this order with
\* priorities that never undercut the parent slot, so that no insert moved anything
\* (a at the root, b at position 1, c at positions 2 .. ARITY, d at the first
\* child of position 1, e at its other children, f at the child of position 2)
DeepValues(a, b, c, d, e, f) ==
    [i \in 1..DeepLen |->
        Some(IF i = 1 THEN a ELSE IF i = 2 THEN b
             ELSE IF i <= ARITY + 1 THEN c
             ELSE IF i = ARITY + 2 THEN d
             ELSE IF i < DeepLen THEN e ELSE f)]

Init ==
    /\ op = [name |-> "new"]
    /\ ret = None
    /\ fault = FALSE
    /\ \/ /\ scenario = "walk"
          /\ values = default.values
          /\ position_map = default.position_map
          /\ inverse_map = default.inverse_map
       \/ /\ scenario = "deep"
          /\ \E a, b, c, d, e, f \in Values :
                /\ a <= b /\ a <= c /\ b <= d /\ b <= e /\ c <= f
                /\ values = DeepValues(a, b, c, d, e, f)
          /\ position_map = [i \in 1..DeepLen |-> Some(i - 1)]
          /\ inverse_map = [i \in 1..DeepLen |-> i - 1]
    /\ prev = Self

\* a call is made while the program runs; the deep scenario makes one call
Running == ~fault /\ (scenario = "walk" \/ (scenario = "deep" /\ op.name = "new"))

\* id has a slot in both storages: the lookups of decrease and increase cannot
\* panic, so only one outcome of them is to be taken
HasSlots(q, id) ==
    component_in_bounds(q.values, id) /\ component_in_bounds(q.position_map, id)

\* the call o made: the queue it leaves, what it returned, whether it panicked
Return(o, q, r, f) ==
    /\ Running
    /\ prev' = Self
    /\ values' = q.values
    /\ position_map' = q.position_map
    /\ inverse_map' = q.inverse_map
    /\ op' = o
    /\ ret' = r
    /\ fault' = f
    /\ UNCHANGED scenario

CloneFrom ==
    \E rhs \in OtherQueues :
        Return([name |-> "clone_from", rhs |-> rhs], clone_from(Self, rhs), None, FALSE)

Clear ==
    Return([name |-> "clear"], clear(Self), None, FALSE)

Insert ==
    \E id \in Ids, value \in Values :
        Return([name |-> "insert", id |-> id, value |-> value],
               insert(Self, id, value), None, FALSE)

Remove ==
    \E id \in Ids :
        LET r == remove(Self, id)
        IN Return([name |-> "remove", id |-> id], r.q, r.ret, FALSE)

Peek ==
    Return([name |-> "peek"], Self, peek(Self), FALSE)

PeekId ==
    Return([name |-> "peek_id"], Self, peek_id(Self), FALSE)

GetPosition ==
    \E position \in Positions :
        Return([name |-> "get_position", position |-> position],
               Self, get_position(Self, position), FALSE)

GetPositionWithId ==
    \E position \in Positions :
        Return([name |-> "get_position_with_id", position |-> position],
               Self, get_position_with_id(Self, position), FALSE)

Pop ==
    \E overflow_checks \in BOOLEAN :
        LET r == pop(Self, overflow_checks)
        IN Return([name |-> "pop"], r.q, r.ret, r.fault)

RemovePosition ==
    \E position \in Positions, overflow_checks \in BOOLEAN :
        LET r == remove_position(Self, position, overflow_checks)
        IN Return([name |-> "remove_position", position |-> position],
                  r.q, r.ret, r.fault)

Decrease ==
    \E id \in Ids, value \in Values, index_panics \in BOOLEAN :
        /\ index_panics => ~HasSlots(Self, id)
        /\ LET r == decrease(Self, id, value, index_panics)
           IN Return([name |-> "decrease", id |-> id, value |-> value],
                     r.q, None, r.fault)

Increase ==
    \E id \in Ids, value \in Values, index_panics \in BOOLEAN :
        /\ index_panics => ~HasSlots(Self, id)
        /\ LET r == increase(Self, id, value, index_panics)
           IN Return([name |-> "increase", id |-> id, value |-> value],
                     r.q, None, r.fault)

Next ==
    \/ CloneFrom
    \/ Clear
    \/ Insert
    \/ Remove
    \/ Peek
    \/ PeekId
    \/ GetPosition
    \/ GetPositionWithId
    \/ Pop
    \/ RemovePosition
    \/ Decrease
    \/ Increase

Spec == Init /\ [][Next]_vars

(* ------------------------- vocabulary of the claims -------------------- *)

\* the stored value of id in queue q: None when id has no slot or an empty one
ValueOf(q, id) == IF id < Len(q.values) THEN q.values[id + 1] ELSE None

\* the stored position of id in queue q
PositionOf(q, id) == IF id < Len(q.position_map) THEN q.position_map[id + 1] ELSE None

\* whether id is in queue q
Present(q, id) == ValueOf(q, id) # None

\* every identifier that has a slot in q or that a caller may pass
KnownIds(q) ==
    Ids \cup {i - 1 : i \in 1..Len(q.values)} \cup {i - 1 : i \in 1..Len(q.position_map)}

PresentIds(q) == {id \in KnownIds(q) : Present(q, id)}

\* the value held at heap position p of q
HeapValue(q, p) == ValueOf(q, q.inverse_map[p + 1])

\* the child positions of p: p*D+1 .. min(p*D+D+1, len) - 1
ChildRange(q, p) ==
    LET hi == IF p * ARITY + ARITY + 1 < Len(q.inverse_map)
              THEN p * ARITY + ARITY + 1 ELSE Len(q.inverse_map)
    IN (p * ARITY + 1)..(hi - 1)

HeapOrdered(q) ==
    \A p \in 0..(Len(q.inverse_map) - 1) :
        \A c \in ChildRange(q, p) :
            /\ HeapValue(q, p) # None
            /\ HeapValue(q, c) # None
            /\ unwrap(HeapValue(q, c)) >= unwrap(HeapValue(q, p))

Bijective(q) ==
    /\ \A p \in 0..(Len(q.inverse_map) - 1) :
           PositionOf(q, q.inverse_map[p + 1]) = Some(p)
    /\ \A id \in KnownIds(q) :
           PositionOf(q, id) # None =>
               /\ unwrap(PositionOf(q, id)) < Len(q.inverse_map)
               /\ q.inverse_map[unwrap(PositionOf(q, id)) + 1] = id

(* -------------------------------- C1 ----------------------------------- *)

\* C1: in every reachable state, for every occupied position p and every
\* position c in p's child range, the value at c is at least the value at p.
C1_HeapOrder == HeapOrdered(Self)

\* an increase of the root of the deep heap has sunk it two levels
C1_Witness ==
    /\ scenario = "deep"
    /\ op.name = "increase"
    /\ prev.inverse_map[1] = op.id
    /\ PositionOf(Self, op.id) # None
    /\ unwrap(PositionOf(Self, op.id)) > ARITY

(* -------------------------------- C2 ----------------------------------- *)

\* C2: in every reachable state, position_map[heap[p]] = p for every position
\* p < len(), and heap[position_map[id]] = id for every id with a position.
C2_Bijection == Bijective(Self)

\* a remove of an identifier that was not last has moved another identifier
C2_Witness ==
    /\ op.name = "remove"
    /\ ret # None
    /\ Len(inverse_map) >= 2
    /\ inverse_map # SubSeq(prev.inverse_map, 1, Len(inverse_map))

(* -------------------------------- C3 ----------------------------------- *)

\* C3: in every reachable state, an identifier has a stored value iff it has
\* a stored position, and len() is the number of identifiers with a value.
C3_PresenceAndLength ==
    /\ \A id \in KnownIds(Self) :
           (ValueOf(Self, id) # None) <=> (PositionOf(Self, id) # None)
    /\ len(Self) = Cardinality(PresentIds(Self))

\* a clear has emptied a queue of two or more identifiers
C3_Witness ==
    /\ op.name = "clear"
    /\ Len(prev.inverse_map) >= 2
    /\ Len(values) >= 2

(* -------------------------------- C4 ----------------------------------- *)

\* C4: in every reachable state peek() is nothing if the queue is empty and
\* otherwise a value no greater than the value of any identifier present,
\* peek_id() is an identifier holding that value; and a peek or peek_id call
\* returns that and leaves the queue as it was.
C4_PeekIsMinimum ==
    /\ is_empty(Self) => peek(Self) = None /\ peek_id(Self) = None
    /\ ~is_empty(Self) =>
          /\ peek(Self) # None
          /\ \A id \in PresentIds(Self) :
                 unwrap(peek(Self)) <= unwrap(ValueOf(Self, id))
          /\ peek_id(Self) # None
          /\ unwrap(peek_id(Self))[2] = unwrap(peek(Self))
          /\ ValueOf(Self, unwrap(peek_id(Self))[1]) = peek(Self)
    /\ op.name = "peek" => ret = peek(prev) /\ Self = prev /\ ~fault
    /\ op.name = "peek_id" => ret = peek_id(prev) /\ Self = prev /\ ~fault

\* peek has returned the minimum of a queue holding a greater value as well
C4_Witness ==
    /\ op.name = "peek"
    /\ ret # None
    /\ \E id \in PresentIds(Self) : unwrap(ValueOf(Self, id)) > unwrap(ret)
    /\ inverse_map[1] # 0

(* -------------------------------- C5 ----------------------------------- *)

\* C5: pop() on an empty queue returns nothing, raises no fault and leaves the
\* values, the position map and the heap array unchanged.
C5_PopEmpty ==
    (op.name = "pop" /\ prev.inverse_map = << >>) =>
        /\ ret = None
        /\ ~fault
        /\ Self = prev

(* -------------------------------- C6 ----------------------------------- *)

\* C6: remove(id) for an identifier that is not in the queue returns nothing
\* and leaves the values, the position map and the heap array unchanged.
C6_RemoveAbsent ==
    (op.name = "remove" /\ ~Present(prev, op.id)) =>
        /\ ret = None
        /\ ~fault
        /\ Self = prev

\* remove of an identifier removed earlier, from a queue that holds others
C6_Witness ==
    /\ op.name = "remove"
    /\ op.id < Len(prev.values)
    /\ ~Present(prev, op.id)
    /\ prev.inverse_map # << >>

(* -------------------------------- C7 ----------------------------------- *)

\* C7: remove(id) for an identifier present with value v returns (id, v);
\* afterwards id has no value and no position, len() is one less, and every
\* other identifier that was present is present with the same value.
C7_RemovePresent ==
    (op.name = "remove" /\ Present(prev, op.id)) =>
        /\ ret = Some(<<op.id, unwrap(ValueOf(prev, op.id))>>)
        /\ ValueOf(Self, op.id) = None
        /\ PositionOf(Self, op.id) = None
        /\ len(Self) = len(prev) - 1
        /\ \A other \in KnownIds(prev) \ {op.id} :
               ValueOf(Self, other) = ValueOf(prev, other)
        /\ ~fault

\* remove of an identifier that was neither last nor alone
C7_Witness ==
    /\ op.name = "remove"
    /\ Present(prev, op.id)
    /\ Len(prev.inverse_map) >= 3
    /\ prev.inverse_map[Len(prev.inverse_map)] # op.id

(* -------------------------------- C8 ----------------------------------- *)

\* C8: decrease(id, v) changes the queue iff id is present and v is strictly
\* less than id's value, and then id's value becomes v; when id is absent or
\* v >= the value, the heap array, the position map and the values are left
\* unchanged and no fault is raised. It fails in the behaviours in which the
\* storage panics on the lookup of an identifier without a slot, and only there.
C8_Decrease ==
    op.name = "decrease" =>
        IF Present(prev, op.id) /\ op.value < unwrap(ValueOf(prev, op.id))
        THEN /\ Self # prev
             /\ ValueOf(Self, op.id) = Some(op.value)
        ELSE /\ Self = prev
             /\ ~fault

(* -------------------------------- C9 ----------------------------------- *)

\* C9: increase(id, v) changes the queue iff id is present and v is strictly
\* greater than id's value, and then id's value becomes v; when id is absent
\* or v <= the value, the heap array, the position map and the values are
\* left unchanged and no fault is raised. It fails in the behaviours in which
\* the storage panics on the lookup of an identifier without a slot, and only
\* there.
C9_Increase ==
    op.name = "increase" =>
        IF Present(prev, op.id) /\ op.value > unwrap(ValueOf(prev, op.id))
        THEN /\ Self # prev
             /\ ValueOf(Self, op.id) = Some(op.value)
        ELSE /\ Self = prev
             /\ ~fault

(* -------------------------------- C10 ---------------------------------- *)

\* C10: insert(id, v) for an identifier already in the queue sets its value to
\* v, whatever the old value, leaves len() and the set of present identifiers
\* unchanged, and leaves the heap ordered and the two maps a bijection.
C10_Upsert ==
    (op.name = "insert" /\ Present(prev, op.id)) =>
        /\ ValueOf(Self, op.id) = Some(op.value)
        /\ len(Self) = len(prev)
        /\ PresentIds(Self) = PresentIds(prev)
        /\ HeapOrdered(Self)
        /\ Bijective(Self)
        /\ ~fault

\* a re-insert with a greater value has moved the identifier down the heap
C10_Witness ==
    /\ op.name = "insert"
    /\ Present(prev, op.id)
    /\ op.value > unwrap(ValueOf(prev, op.id))
    /\ unwrap(PositionOf(Self, op.id)) > unwrap(PositionOf(prev, op.id))

(* -------------------------------- C11 ---------------------------------- *)

\* C11: an insert(id, v) of an identifier that was not in the queue, followed
\* at once by remove(id), returns exactly (id, v) and leaves len() what it was
\* before the insert.
C11_InsertRemoveRoundTrip ==
    (op.name = "insert" /\ ~Present(prev, op.id) /\ ~fault) =>
        LET r == remove(Self, op.id)
        IN /\ r.ret = Some(<<op.id, op.value>>)
           /\ len(r.q) = len(prev)

\* the insert has put a new identifier above identifiers that were there
C11_Witness ==
    /\ op.name = "insert"
    /\ ~Present(prev, op.id)
    /\ len(prev) >= 1
    /\ inverse_map[1] = op.id

(* ----------------------- the driver of the max-queue ------------------- *)

\* the states of the other max-queue the caller holds: new, after one insert
\* call, or after the insert calls of the last two identifiers
MaxOtherQueues ==
    {default}
    \cup {max_insert(default, i, v) : i \in RhsIds, v \in Values}
    \cup {max_insert(max_insert(default, NumIds - 2, v), NumIds - 1, w) :
              v \in Values, w \in Values}

MaxInit ==
    /\ op = [name |-> "new"]
    /\ ret = None
    /\ fault = FALSE
    /\ \/ /\ scenario = "max_walk"
          /\ values = default.values
          /\ position_map = default.position_map
          /\ inverse_map = default.inverse_map
       \/ /\ scenario = "max_deep"
          /\ \E a, b, c, d, e, f \in Values :
                /\ a >= b /\ a >= c /\ b >= d /\ b >= e /\ c >= f
                /\ values = DeepValues(Reverse(a), Reverse(b), Reverse(c),
                                       Reverse(d), Reverse(e), Reverse(f))
          /\ position_map = [i \in 1..DeepLen |-> Some(i - 1)]
          /\ inverse_map = [i \in 1..DeepLen |-> i - 1]
    /\ prev = Self

MaxRunning ==
    ~fault /\ (scenario = "max_walk" \/ (scenario = "max_deep" /\ op.name = "new"))

MaxReturn(o, q, r, f) ==
    /\ MaxRunning
    /\ prev' = Self
    /\ values' = q.values
    /\ position_map' = q.position_map
    /\ inverse_map' = q.inverse_map
    /\ op' = o
    /\ ret' = r
    /\ fault' = f
    /\ UNCHANGED scenario

MaxCloneFrom ==
    \E rhs \in MaxOtherQueues :
        MaxReturn([name |-> "clone_from", rhs |-> rhs], max_clone_from(Self, rhs),
                  None, FALSE)

MaxClear ==
    MaxReturn([name |-> "clear"], max_clear(Self), None, FALSE)

MaxInsert ==
    \E id \in Ids, value \in Values :
        MaxReturn([name |-> "insert", id |-> id, value |-> value],
                  max_insert(Self, id, value), None, FALSE)

MaxRemove ==
    \E id \in Ids :
        LET r == max_remove(Self, id)
        IN MaxReturn([name |-> "remove", id |-> id], r.q, r.ret, FALSE)

MaxPeek ==
    MaxReturn([name |-> "peek"], Self, max_peek(Self), FALSE)

MaxPeekId ==
    MaxReturn([name |-> "peek_id"], Self, max_peek_id(Self), FALSE)

MaxGetPosition ==
    \E position \in Positions :
        MaxReturn([name |-> "get_position", position |-> position],
                  Self, max_get_position(Self, position), FALSE)

MaxGetPositionWithId ==
    \E position \in Positions :
        MaxReturn([name |-> "get_position_with_id", position |-> position],
                  Self, max_get_position_with_id(Self, position), FALSE)

MaxPop ==
    \E overflow_checks \in BOOLEAN :
        LET r == max_pop(Self, overflow_checks)
        IN MaxReturn([name |-> "pop"], r.q, r.ret, r.fault)

MaxIncrease ==
    \E id \in Ids, value \in Values, index_panics \in BOOLEAN :
        /\ index_panics => ~HasSlots(Self, id)
        /\ LET r == max_increase(Self, id, value, index_panics)
           IN MaxReturn([name |-> "increase", id |-> id, value |-> value],
                        r.q, None, r.fault)

MaxDecrease ==
    \E id \in Ids, value \in Values, index_panics \in BOOLEAN :
        /\ index_panics => ~HasSlots(Self, id)
        /\ LET r == max_decrease(Self, id, value, index_panics)
           IN MaxReturn([name |-> "decrease", id |-> id, value |-> value],
                        r.q, None, r.fault)

MaxNext ==
    \/ MaxCloneFrom
    \/ MaxClear
    \/ MaxInsert
    \/ MaxRemove
    \/ MaxPeek
    \/ MaxPeekId
    \/ MaxGetPosition
    \/ MaxGetPositionWithId
    \/ MaxPop
    \/ MaxIncrease
    \/ MaxDecrease

\* an IndexedMaxQueue and its caller
SpecMax == MaxInit /\ [][MaxNext]_vars

(* -------------------------------- C12 ---------------------------------- *)

\* the value the max-queue holds for id: None when id is not in it
MaxValueOf(q, id) == map_reverse_0(ValueOf(q, id))

\* C12: after any sequence of max-queue calls peek() is at least every present
\* value; a max-queue increase(id, v) changes the queue only if v is strictly
\* greater than id's value and a decrease(id, v) only if v is strictly less,
\* and the value of id is then v.
C12_MaxQueue ==
    /\ ~is_empty(Self) =>
          /\ max_peek(Self) # None
          /\ \A id \in PresentIds(Self) :
                 unwrap(max_peek(Self)) >= unwrap(MaxValueOf(Self, id))
    /\ op.name = "peek" => ret = max_peek(prev) /\ Self = prev
    /\ (op.name = "increase" /\ Self # prev) =>
          /\ Present(prev, op.id)
          /\ op.value > unwrap(MaxValueOf(prev, op.id))
          /\ MaxValueOf(Self, op.id) = Some(op.value)
    /\ (op.name = "decrease" /\ Self # prev) =>
          /\ Present(prev, op.id)
          /\ op.value < unwrap(MaxValueOf(prev, op.id))
          /\ MaxValueOf(Self, op.id) = Some(op.value)
    /\ (op.name = "increase" /\ Present(prev, op.id)
            /\ op.value > unwrap(MaxValueOf(prev, op.id))) =>
          MaxValueOf(Self, op.id) = Some(op.value)
    /\ (op.name = "decrease" /\ Present(prev, op.id)
            /\ op.value < unwrap(MaxValueOf(prev, op.id))) =>
          MaxValueOf(Self, op.id) = Some(op.value)

\* an increase has taken an identifier of the deep max-heap from the second
\* level to the root, where peek finds its value
C12_Witness ==
    /\ scenario = "max_deep"
    /\ op.name = "increase"
    /\ Present(prev, op.id)
    /\ unwrap(PositionOf(prev, op.id)) > ARITY
    /\ inverse_map[1] = op.id
    /\ max_peek(Self) = Some(op.value)

(* -------------------------------- C13 ---------------------------------- *)

\* C13: on a non-empty queue remove_position(p) with p >= len() returns
\* nothing and leaves the values, the position map and the heap array
\* unchanged; get_position(p) and get_position_with_id(p) with p >= len()
\* return nothing.
C13_PositionOutOfRange ==
    /\ (op.name = "remove_position" /\ prev.inverse_map # << >>
            /\ op.position >= len(prev)) =>
          /\ ret = None
          /\ ~fault
          /\ Self = prev
    /\ (op.name \in {"get_position", "get_position_with_id"}
            /\ op.position >= len(prev)) =>
          /\ ret = None
          /\ ~fault
          /\ Self = prev

\* remove_position(len()) on a queue of two or more identifiers
C13_Witness ==
    /\ op.name = "remove_position"
    /\ len(prev) >= 2
    /\ op.position = len(prev)

(* -------------------------------- C14 ---------------------------------- *)

\* C14: insert(id, v) of an identifier that is not in the queue increases
\* len() by one and stores v for id; if the queue was empty or v is not
\* strictly less than the value at the parent slot of the new last position,
\* the heap array is the previous heap array with id appended.
C14_InsertNew ==
    (op.name = "insert" /\ ~Present(prev, op.id)) =>
        /\ ~fault
        /\ len(Self) = len(prev) + 1
        /\ ValueOf(Self, op.id) = Some(op.value)
        /\ (\/ len(prev) = 0
            \/ ~(op.value < unwrap(HeapValue(prev, (len(prev) - 1) \div ARITY)))) =>
               inverse_map = Append(prev.inverse_map, op.id)

\* an insert below position 2 of the deep heap, with the value held there
C14_Witness ==
    /\ scenario = "deep"
    /\ op.name = "insert"
    /\ ~Present(prev, op.id)
    /\ (len(prev) - 1) \div ARITY = 2
    /\ op.value = unwrap(HeapValue(prev, 2))
    /\ inverse_map = Append(prev.inverse_map, op.id)

(* -------------------------------- C15 ---------------------------------- *)

\* C15: clear() leaves len() = 0, an empty heap array and no identifier with a
\* value or a position; an identifier that was present before the clear can
\* then be inserted and is treated as new: len() becomes 1 and it is the root.
C15_Clear ==
    op.name = "clear" =>
        /\ ~fault
        /\ len(Self) = 0
        /\ inverse_map = << >>
        /\ \A id \in KnownIds(prev) \cup KnownIds(Self) :
               ValueOf(Self, id) = None /\ PositionOf(Self, id) = None
        /\ \A id \in PresentIds(prev) : \A value \in Values :
               LET q == insert(Self, id, value)
               IN /\ len(q) = 1
                  /\ q.inverse_map = << id >>
                  /\ ValueOf(q, id) = Some(value)
                  /\ PositionOf(q, id) = Some(0)
                  /\ peek_id(q) = Some(<<id, value>>)

\* the deep heap has been cleared
C15_Witness ==
    /\ scenario = "deep"
    /\ op.name = "clear"
    /\ len(prev) = DeepLen

(* -------------------------------- C16 ---------------------------------- *)

\* what remove(id) gives, in the shape of what remove_position gives
RemoveOutcome(q, id) ==
    LET r == remove(q, id) IN [q |-> r.q, ret |-> r.ret, fault |-> FALSE]

\* C16: in every reachable state and for every position p < len(),
\* remove_position(p) returns the same pair and leaves the same values,
\* position map and heap array as remove(heap[p]); pop() is remove of the
\* identifier peek_id() returns; and the calls made have done so.
C16_RemovePositionIsRemove ==
    /\ \A p \in 0..(len(Self) - 1) : \A overflow_checks \in BOOLEAN :
           remove_position(Self, p, overflow_checks)
               = RemoveOutcome(Self, inverse_map[p + 1])
    /\ ~is_empty(Self) =>
           \A overflow_checks \in BOOLEAN :
               pop(Self, overflow_checks)
                   = RemoveOutcome(Self, unwrap(peek_id(Self))[1])
    /\ (op.name = "remove_position" /\ op.position < len(prev)) =>
           [q |-> Self, ret |-> ret, fault |-> fault]
               = RemoveOutcome(prev, prev.inverse_map[op.position + 1])
    /\ (op.name = "pop" /\ ~is_empty(prev)) =>
           [q |-> Self, ret |-> ret, fault |-> fault]
               = RemoveOutcome(prev, unwrap(peek_id(prev))[1])

\* remove_position has taken an identifier from between the root and the last
\* position, and another identifier has moved
C16_Witness ==
    /\ op.name = "remove_position"
    /\ op.position > 0
    /\ op.position < len(prev) - 1
    /\ ret = Some(<<prev.inverse_map[op.position + 1],
                    unwrap(HeapValue(prev, op.position))>>)
    /\ inverse_map[op.position + 1] = prev.inverse_map[len(prev)]

(* -------------------------------- C17 ---------------------------------- *)

\* the queue of an upsert insert(id, value) when its restoration starts
UpsertWritten(q, id, value) ==
    [q EXCEPT !.values = component_insert(@, id, Some(value))]

\* the queue of a remove or remove_position when its restoration starts: the
\* identifier at position swapped with the last, popped, and its slots cleared
Vacated(q, position) ==
    LET id == q.inverse_map[position + 1]
        q1 == swap(q, position, Len(q.inverse_map) - 1)
    IN [q1 EXCEPT !.values = [@ EXCEPT ![id + 1] = None],
                  !.position_map = [@ EXCEPT ![id + 1] = None],
                  !.inverse_map = SubSeq(@, 1, Len(@) - 1)]

\* not both of sink and swim from index swap something
AtMostOnePassSwaps(q, index) ==
    LET sunk == sink(q, index)
    IN ~(sunk # q /\ swim(sunk, index) # sunk)

\* the position the last call's removal vacated, None if it removed nothing
VacatedPosition ==
    IF op.name = "remove" /\ Present(prev, op.id) THEN PositionOf(prev, op.id)
    ELSE IF op.name = "remove_position" /\ op.position < len(prev) THEN Some(op.position)
    ELSE IF op.name = "pop" /\ ~is_empty(prev) THEN Some(0)
    ELSE None

\* C17: in the sink-then-swim restoration of an upsert and of a removal at
\* most one of the two passes swaps; an upsert leaves what swim alone leaves
\* when the new value is smaller than the old one and what sink alone leaves
\* when it is greater.
C17_OnePassSuffices ==
    /\ (op.name = "insert" /\ Present(prev, op.id)) =>
          LET written == UpsertWritten(prev, op.id, op.value)
              index == unwrap(PositionOf(prev, op.id))
              old == unwrap(ValueOf(prev, op.id))
          IN /\ Self = swim(sink(written, index), index)
             /\ AtMostOnePassSwaps(written, index)
             /\ op.value < old => Self = swim(written, index)
             /\ op.value > old => Self = sink(written, index)
             /\ op.value = old => Self = written
    /\ VacatedPosition # None =>
          LET vacated == Vacated(prev, unwrap(VacatedPosition))
              index == unwrap(VacatedPosition)
          IN /\ Self = swim(sink(vacated, index), index)
             /\ AtMostOnePassSwaps(vacated, index)

\* a remove from the second level of the deep heap after which swim, not
\* sink, has moved the identifier that filled the vacated position
C17_Witness ==
    /\ scenario = "deep"
    /\ op.name = "remove"
    /\ VacatedPosition # None
    /\ unwrap(VacatedPosition) > ARITY
    /\ sink(Vacated(prev, unwrap(VacatedPosition)), unwrap(VacatedPosition))
           = Vacated(prev, unwrap(VacatedPosition))
    /\ Self # Vacated(prev, unwrap(VacatedPosition))

(* -------------------------------- C18 ---------------------------------- *)

\* a min-queue or a max-queue and its caller
SpecAll == (Init \/ MaxInit) /\ [][Next \/ MaxNext]_vars

IsMax == scenario \in {"max_walk", "max_deep"}

\* n calls of pop() in a row on queue q, in a build that checks overflow, up
\* to the first that panics: the queue left, the values returned in order,
\* whether a call panicked
RECURSIVE PopSequence(_, _)
PopSequence(q, n) ==
    IF n = 0 THEN [q |-> q, rets |-> << >>, fault |-> FALSE]
    ELSE LET r == IF IsMax THEN max_pop(q, TRUE) ELSE pop(q, TRUE)
         IN IF r.fault THEN [q |-> r.q, rets |-> << r.ret >>, fault |-> TRUE]
            ELSE LET rest == PopSequence(r.q, n - 1)
                 IN [q |-> rest.q, rets |-> << r.ret >> \o rest.rets,
                     fault |-> rest.fault]

\* the value the caller stored for id
CallerValueOf(q, id) == IF IsMax THEN MaxValueOf(q, id) ELSE ValueOf(q, id)

\* C18: len() calls of pop() in a row, from any reachable state, return values
\* that never decrease (never increase for the max-queue), return each
\* identifier that was present once, with its stored value, and leave the
\* queue empty; none of them finds the queue empty (each returns an entry).
C18_PopsDrainInOrder ==
    LET n == len(Self)
        s == PopSequence(Self, n)
    IN /\ ~s.fault
       /\ is_empty(s.q)
       /\ \A i \in 1..n :
              /\ s.rets[i] # None
              /\ Present(Self, unwrap(s.rets[i])[1])
              /\ CallerValueOf(Self, unwrap(s.rets[i])[1]) = Some(unwrap(s.rets[i])[2])
       /\ {unwrap(s.rets[i])[1] : i \in 1..n} = PresentIds(Self)
       /\ Cardinality(PresentIds(Self)) = n
       /\ \A i \in 1..(n - 1) :
              IF IsMax
              THEN unwrap(s.rets[i])[2] >= unwrap(s.rets[i + 1])[2]
              ELSE unwrap(s.rets[i])[2] <= unwrap(s.rets[i + 1])[2]

\* one pop has been made on the deep heap and the heap array left is not in
\* the order of its values
C18_Witness ==
    /\ scenario = "deep"
    /\ op.name = "pop"
    /\ ret # None
    /\ \E p \in 0..(len(Self) - 2) :
           unwrap(HeapValue(Self, p)) > unwrap(HeapValue(Self, p + 1))

(* -------------------------------- C19 ---------------------------------- *)

\* the last call removed an entry
Removed == op.name \in {"remove", "remove_position", "pop"} /\ ret # None /\ ~fault

\* C19: after remove, remove_position or pop has removed an identifier, at any
\* point of any sequence of calls, insert of that identifier with any value is
\* an insertion of a new identifier: len() grows by one, the identifier holds
\* the new value at a valid position of the heap, and heap order and the
\* bijection of the two maps hold.
C19_ReinsertAfterRemove ==
    Removed =>
        LET id == unwrap(ret)[1]
        IN /\ ~Present(Self, id)
           /\ \A value \in Values :
                  LET q == insert(Self, id, value)
                  IN /\ len(q) = len(Self) + 1
                     /\ ValueOf(q, id) = Some(value)
                     /\ PositionOf(q, id) # None
                     /\ unwrap(PositionOf(q, id)) \in 0..(len(q) - 1)
                     /\ q.inverse_map[unwrap(PositionOf(q, id)) + 1] = id
                     /\ HeapOrdered(q)
                     /\ Bijective(q)

\* an identifier that was not the last of the heap array has been removed from
\* the deep heap, and its insertion with the least value would swim it from
\* the end of the heap array to the root
C19_Witness ==
    /\ Removed
    /\ scenario = "deep"
    /\ unwrap(PositionOf(prev, unwrap(ret)[1])) < len(prev) - 1
    /\ PositionOf(insert(Self, unwrap(ret)[1], 0), unwrap(ret)[1]) = Some(0)

(* -------------------------------- C20 ---------------------------------- *)

\* id is one of the identifiers of the heap array of q
InHeap(q, id) == \E p \in 1..Len(q.inverse_map) : q.inverse_map[p] = id

\* C20: insert(id, v), decrease(id, v), increase(id, v) and remove(id) leave
\* every other identifier with the stored value it had, present if it was
\* present and absent if it was absent; only positions of others may change.
C20_Frame ==
    op.name \in {"insert", "decrease", "increase", "remove"} =>
        \A other \in (KnownIds(prev) \cup KnownIds(Self)) \ {op.id} :
            /\ ValueOf(Self, other) = ValueOf(prev, other)
            /\ (PositionOf(Self, other) # None) = (PositionOf(prev, other) # None)
            /\ InHeap(Self, other) = InHeap(prev, other)

\* a call for one identifier has moved another identifier of the deep heap
C20_Witness ==
    /\ op.name \in {"insert", "decrease", "increase", "remove"}
    /\ scenario = "deep"
    /\ ~fault
    /\ \E other \in PresentIds(prev) \ {op.id} :
           PositionOf(Self, other) # PositionOf(prev, other)

(* -------------------------------- C21 ---------------------------------- *)

\* the child of position p with the least value, the lowest such position
LowestMinChild(q, p) ==
    CHOOSE c \in ChildRange(q, p) :
        \A k \in ChildRange(q, p) :
            /\ unwrap(HeapValue(q, c)) <= unwrap(HeapValue(q, k))
            /\ unwrap(HeapValue(q, k)) = unwrap(HeapValue(q, c)) => c <= k

\* sinking as the claim words it: swap with the lowest least child while that
\* child is strictly less
RECURSIVE SinkStrict(_, _)
SinkStrict(q, p) ==
    IF p >= len(q) \/ ChildRange(q, p) = {} THEN q
    ELSE LET c == LowestMinChild(q, p)
         IN IF unwrap(HeapValue(q, c)) < unwrap(HeapValue(q, p))
            THEN SinkStrict(swap(q, p, c), c)
            ELSE q

\* swimming as the claim words it: swap with the parent while the node is
\* strictly less
RECURSIVE SwimStrict(_, _)
SwimStrict(q, p) ==
    IF p >= len(q) \/ p = 0 THEN q
    ELSE LET parent == (p - 1) \div ARITY
         IN IF unwrap(HeapValue(q, p)) < unwrap(HeapValue(q, parent))
            THEN SwimStrict(swap(q, p, parent), parent)
            ELSE q

\* the queue and the position at which the last call started its sink and
\* swim, None if the call made neither
RestorationStart ==
    IF fault THEN None
    ELSE IF /\ op.name \in {"insert", "decrease", "increase"}
            /\ Present(prev, op.id)
            /\ \/ op.name = "insert"
               \/ op.name = "decrease" /\ op.value < unwrap(ValueOf(prev, op.id))
               \/ op.name = "increase" /\ op.value > unwrap(ValueOf(prev, op.id))
    THEN Some([q |-> UpsertWritten(prev, op.id, op.value),
               index |-> unwrap(PositionOf(prev, op.id))])
    ELSE IF VacatedPosition # None
    THEN Some([q |-> Vacated(prev, unwrap(VacatedPosition)),
               index |-> unwrap(VacatedPosition)])
    ELSE None

\* C21: min_child returns the child with the least value, the lowest position
\* among those sharing it; sink swaps a node with that child only while the
\* child is strictly less, and swim swaps a node with its parent only while
\* the node is strictly less, so a node equal to its least child or to its
\* parent stays where it is.
C21_TieBreakAndStrictness ==
    RestorationStart # None =>
        LET w == unwrap(RestorationStart).q
            index == unwrap(RestorationStart).index
        IN /\ \A p \in 0..(len(w) - 1) :
                  min_child(w, p) = IF ChildRange(w, p) = {} THEN None
                                    ELSE Some(LowestMinChild(w, p))
           /\ sink(w, index) = SinkStrict(w, index)
           /\ swim(w, index) = SwimStrict(w, index)
           /\ swim(sink(w, index), index) = SwimStrict(SinkStrict(w, index), index)
           /\ (index < len(w) /\ ChildRange(w, index) # {}
                 /\ HeapValue(w, LowestMinChild(w, index)) = HeapValue(w, index))
                  => sink(w, index) = w
           /\ (index < len(w) /\ index > 0
                 /\ HeapValue(w, (index - 1) \div ARITY) = HeapValue(w, index))
                  => swim(w, index) = w
           /\ op.name = "increase" => Self = SinkStrict(w, index)
           /\ op.name = "decrease" => Self = SwimStrict(w, index)
           /\ op.name \notin {"increase", "decrease"}
                  => Self = SwimStrict(SinkStrict(w, index), index)

\* increase of the root of the deep heap has sunk it to position 2, the lowest
\* of several children sharing the least value and not the first child, where
\* it stays above a child equal to it
C21_Witness ==
    /\ scenario = "deep"
    /\ op.name = "increase"
    /\ PositionOf(prev, op.id) = Some(0)
    /\ PositionOf(Self, op.id) = Some(2)
    /\ unwrap(HeapValue(prev, 1)) > unwrap(HeapValue(prev, 2))
    /\ HeapValue(prev, 3) = HeapValue(prev, 2)
    /\ HeapValue(Self, 2 * ARITY + 1) = HeapValue(Self, 2)

(* -------------------------------- C22 ---------------------------------- *)

\* the values the loop variable index of sink(index) takes, in order: one
\* more after each swap
RECURSIVE SinkIndices(_, _)
SinkIndices(q, index) ==
    LET child == min_child(q, index)
    IN IF child = None THEN << index >>
       ELSE LET child_value == get_position(q, unwrap(child))
                parent_value == get_position(q, index)
            IN IF child_value = None \/ parent_value = None THEN << index >>
               ELSE IF lt(unwrap(child_value), unwrap(parent_value))
                    THEN << index >> \o SinkIndices(swap(q, index, unwrap(child)),
                                                    unwrap(child))
                    ELSE << index >>

\* the values the loop variable index of swim(index) takes, in order
RECURSIVE SwimIndices(_, _)
SwimIndices(q, index) ==
    LET parent == get_parent(index, ARITY)
    IN IF parent = None THEN << index >>
       ELSE LET parent_value == get_position(q, unwrap(parent))
                child_value == get_position(q, index)
            IN IF parent_value = None \/ child_value = None THEN << index >>
               ELSE IF lt(unwrap(child_value), unwrap(parent_value))
                    THEN << index >> \o SwimIndices(swap(q, index, unwrap(parent)),
                                                    unwrap(parent))
                    ELSE << index >>

RECURSIVE Pow(_, _)
Pow(d, k) == IF k = 0 THEN 1 ELSE d * Pow(d, k - 1)

\* ceil(log_d(n)): the least k with d^k >= n
RECURSIVE CeilLogFrom(_, _, _)
CeilLogFrom(d, n, k) == IF Pow(d, k) >= n THEN k ELSE CeilLogFrom(d, n, k + 1)

CeilLog(d, n) == CeilLogFrom(d, n, 0)

\* the queue with a new identifier pushed, as insert has it when swim starts
Pushed(q, id, value) ==
    LET q1 == [q EXCEPT !.values = component_insert(@, id, Some(value))]
    IN [q1 EXCEPT !.position_map = component_insert(@, id, Some(Len(q1.inverse_map))),
                  !.inverse_map = Append(@, id)]

\* the queue and the position at which the last call started its loops
LoopStart ==
    IF op.name = "insert" /\ ~Present(prev, op.id) /\ ~fault
    THEN Some([q |-> Pushed(prev, op.id, op.value), index |-> len(prev)])
    ELSE RestorationStart

\* C22: in every call the index of the sink loop strictly increases and the
\* index of the swim loop strictly decreases from one iteration to the next,
\* so each loop ends, after at most ceil(log_D(len)) swaps for D = ARITY; the
\* calls that start no loop end at once.
C22_LoopsBounded ==
    LoopStart # None =>
        LET w == unwrap(LoopStart).q
            index == unwrap(LoopStart).index
            down == SinkIndices(w, index)
            sunk == sink(w, index)
            up == SwimIndices(sunk, index)
            bound == CeilLog(ARITY, len(w))
        IN /\ \A i \in 1..(Len(down) - 1) : down[i] < down[i + 1]
           /\ \A i \in 1..(Len(up) - 1) : up[i] > up[i + 1]
           /\ Len(down) - 1 <= bound
           /\ Len(up) - 1 <= bound
           /\ index < len(w) =>
                  /\ sunk.inverse_map[down[Len(down)] + 1] = w.inverse_map[index + 1]
                  /\ swim(sunk, index).inverse_map[up[Len(up)] + 1]
                         = sunk.inverse_map[index + 1]

\* a call on the deep heap whose sink or swim has made as many swaps as the
\* bound allows: two, for a heap of more than ARITY entries
C22_Witness ==
    /\ scenario = "deep"
    /\ LoopStart # None
    /\ len(unwrap(LoopStart).q) > ARITY
    /\ \/ Len(SinkIndices(unwrap(LoopStart).q, unwrap(LoopStart).index)) = 3
       \/ Len(SwimIndices(unwrap(LoopStart).q, unwrap(LoopStart).index)) = 3

====
